---- MODULE Spec2Model ----
(***************************************************************************)
(* Model of the lancelot native extension (ext/lancelot/src): the schema   *)
(* resolver build_arrow_schema (schema.rs), the record encoder             *)
(* build_record_batch and the decoder convert_batch_to_ruby                *)
(* (conversion.rs), and the LancelotDataset object (dataset.rs).  Ruby     *)
(* values, magnus conversions and Arrow arrays are modelled by what the    *)
(* code does with them.                                                    *)
(***************************************************************************)
EXTENDS Integers, Sequences, FiniteSets, TLC

VARIABLES
    pc,           \* "new" | "resolved" | "encoded" | "decoded", or the last
                  \* operation called on the LancelotDataset object
    schema_hash,  \* the Ruby hash handed to build_arrow_schema
    schema,       \* Result<ArrowSchema, Error> of build_arrow_schema
    data,         \* the Ruby array handed to build_record_batch
    batch,        \* Result<RecordBatch, Error> of build_record_batch
    documents,    \* Result<Vec<RHash>, Error> of convert_batch_to_ruby
    dataset,      \* LancelotDataset.dataset: Option<Dataset>
    result,       \* the Result the last LancelotDataset operation returned
    num_rows,     \* create_vector_index: the rows the dataset counted
    num_partitions \* create_vector_index: the partitions of the index

vars == <<pc, schema_hash, schema, data, batch, documents, dataset, result,
          num_rows, num_partitions>>

-----------------------------------------------------------------------------
(* Bounds of the model *)

\* largest number of entries of a schema hash
MaxFields == 2
\* largest number of (record, schema field) cells of an encoded array
MaxCells == 3
\* largest vector dimension of a schema hash
MaxDim == 2
\* one f32 step, counted in f64 steps: a Ruby Float is an integer number of
\* f64 steps, an f32 holds the multiples of F32Ulp; 1.0 is F32Ulp steps
F32Ulp == 2

-----------------------------------------------------------------------------
(* Ruby values: a tag t and a payload v *)

Nil == [t |-> "nil", v |-> 0]
RStr(s) == [t |-> "str", v |-> s]
RSym(s) == [t |-> "sym", v |-> s]
RInt(i) == [t |-> "int", v |-> i]
RFloat(u) == [t |-> "float", v |-> u]
RBool(b) == [t |-> "bool", v |-> b]
RArr(s) == [t |-> "array", v |-> s]
\* a Ruby Hash: its <<key, value>> pairs in insertion order, keys distinct
RHashOf(pairs) == [t |-> "hash", v |-> pairs]

\* Result<T, Error>
Ok(x) == [ok |-> TRUE, v |-> x]
Err(e) == [ok |-> FALSE, v |-> e]

\* magnus::Error: the Ruby exception class and the message parts
KeyError(key) == [exception |-> "KeyError", msg |-> <<"key not found", key>>]
TypeError(target) == [exception |-> "TypeError", msg |-> <<"no implicit conversion", target>>]
ArgError(m) == [exception |-> "ArgumentError", msg |-> m]
RuntimeError(m) == [exception |-> "RuntimeError", msg |-> m]

\* a Rust panic: the call unwinds and returns neither a value nor an Error
Panic(m) == [ok |-> FALSE, v |-> [exception |-> "panic", msg |-> m]]

\* Option<T>: None is the empty sequence, Some(x) the one-element sequence
None == <<>>
Some(x) == <<x>>

-----------------------------------------------------------------------------
(* magnus conversions of a Ruby value *)

\* RHash::fetch: Hash#fetch, a KeyError when the key is not in the hash
Fetch(hash, key) ==
    IF \E i \in 1..Len(hash.v) : hash.v[i][1] = key
    THEN Ok(hash.v[CHOOSE i \in 1..Len(hash.v) : hash.v[i][1] = key][2])
    ELSE Err(KeyError(key))

\* String::try_convert: implicit conversion to_str
StringTryConvert(value) ==
    IF value.t = "str" THEN Ok(value.v) ELSE Err(TypeError("String"))

\* f64::try_convert: rb_num2dbl, numeric values only
F64TryConvert(value) ==
    CASE value.t = "float" -> Ok(value.v)
      [] value.t = "int" -> Ok(value.v * F32Ulp)
      [] OTHER -> Err(TypeError("Float"))

\* i64::try_convert: an Integer as it is, other values through to_int,
\* which a Float answers by truncating toward zero
I64TryConvert(value) ==
    CASE value.t = "int" -> Ok(value.v)
      [] value.t = "float" ->
            Ok(IF value.v >= 0 THEN value.v \div F32Ulp
                               ELSE -((-value.v) \div F32Ulp))
      [] OTHER -> Err(TypeError("Integer"))

\* i32::try_convert
I32TryConvert(value) == I64TryConvert(value)

\* bool::try_convert: Ruby truthiness, never an error
BoolTryConvert(value) ==
    Ok(~(value.t = "nil" \/ (value.t = "bool" /\ value.v = FALSE)))

\* RArray::try_convert: implicit conversion to_ary
RArrayTryConvert(value) ==
    IF value.t = "array" THEN Ok(value.v) ELSE Err(TypeError("Array"))

\* `f as f32`: round to the nearest f32, ties to the even mantissa
AsF32(u) ==
    LET a == IF u >= 0 THEN u ELSE -u
        lo == (a \div F32Ulp) * F32Ulp
        hi == lo + F32Ulp
        r == IF a = lo THEN lo
             ELSE IF 2 * (a - lo) < F32Ulp THEN lo
             ELSE IF 2 * (a - lo) > F32Ulp THEN hi
             ELSE IF (lo \div F32Ulp) % 2 = 0 THEN lo ELSE hi
    IN IF u >= 0 THEN r ELSE -r

-----------------------------------------------------------------------------
(* arrow_schema *)

\* DataType: the variant k and, for FixedSizeList, the list size and the
\* data type of the item field
DT(k) == [k |-> k, size |-> 0, item |-> "none"]

\* FixedSizeList over an item field of another type than Float32
FixedSizeListOfFloat64(n) == [k |-> "FixedSizeList", size |-> n, item |-> "Float64"]

\* FixedSizeList(Field::new("item", DataType::Float32, true), n)
FixedSizeList(n) == [k |-> "FixedSizeList", size |-> n, item |-> "Float32"]

\* Field::new(name, data_type, nullable)
Field(name, data_type, nullable) ==
    [name |-> name, data_type |-> data_type, nullable |-> nullable]

-----------------------------------------------------------------------------
(* schema.rs: build_arrow_schema *)

\* the data type of one schema hash entry, the dimension of a structured
\* descriptor fetched before its type
FieldDataTypeDimensionFirst(value) ==
    IF value.t = "hash"
    THEN LET dim_v == Fetch(value, RSym("dimension"))
             dimension == IF dim_v.ok THEN I32TryConvert(dim_v.v) ELSE dim_v
             type_v == Fetch(value, RSym("type"))
             type_str == IF type_v.ok THEN StringTryConvert(type_v.v) ELSE type_v
         IN IF ~dimension.ok THEN dimension
            ELSE IF ~type_str.ok THEN type_str
            ELSE IF type_str.v = "vector" THEN Ok(FixedSizeList(dimension.v))
            ELSE Err(ArgError(<<"Unknown field type", type_str.v>>))
    ELSE LET type_str == StringTryConvert(value)
         IN IF ~type_str.ok THEN type_str
            ELSE CASE type_str.v = "string" -> Ok(DT("Utf8"))
                   [] type_str.v = "float32" -> Ok(DT("Float32"))
                   [] type_str.v = "float64" -> Ok(DT("Float64"))
                   [] type_str.v = "int32" -> Ok(DT("Int32"))
                   [] type_str.v = "int64" -> Ok(DT("Int64"))
                   [] type_str.v = "boolean" -> Ok(DT("Boolean"))
                   [] OTHER -> Err(ArgError(<<"Unknown field type", type_str.v>>))

\* the data type of one schema hash entry
FieldDataType(value) ==
    IF value.t = "hash"
    THEN LET type_v == Fetch(value, RSym("type"))
             type_str == IF type_v.ok THEN StringTryConvert(type_v.v) ELSE type_v
         IN IF ~type_str.ok THEN type_str
            ELSE IF type_str.v = "vector"
                 THEN LET dim_v == Fetch(value, RSym("dimension"))
                          dimension == IF dim_v.ok THEN I32TryConvert(dim_v.v) ELSE dim_v
                      IN IF ~dimension.ok THEN dimension
                         ELSE Ok(FixedSizeList(dimension.v))
                 ELSE Err(ArgError(<<"Unknown field type", type_str.v>>))
    ELSE LET type_str == StringTryConvert(value)
         IN IF ~type_str.ok THEN type_str
            ELSE CASE type_str.v = "string" -> Ok(DT("Utf8"))
                   [] type_str.v = "float32" -> Ok(DT("Float32"))
                   [] type_str.v = "float64" -> Ok(DT("Float64"))
                   [] type_str.v = "int32" -> Ok(DT("Int32"))
                   [] type_str.v = "int64" -> Ok(DT("Int64"))
                   [] type_str.v = "boolean" -> Ok(DT("Boolean"))
                   [] OTHER -> Err(ArgError(<<"Unknown field type", type_str.v>>))

\* the foreach with every field put in front of the fields pushed so far
RECURSIVE SchemaForeachPrepend(_, _, _)
SchemaForeachPrepend(hash, i, fields) ==
    IF i > Len(hash.v) THEN Ok(fields)
    ELSE LET key == hash.v[i][1]
             data_type == FieldDataType(hash.v[i][2])
         IN IF ~data_type.ok THEN data_type
            ELSE SchemaForeachPrepend(hash, i + 1,
                     <<Field(key.v, data_type.v, TRUE)>> \o fields)

\* the foreach that leaves out an entry whose data type is an error
RECURSIVE SchemaForeachSkip(_, _, _)
SchemaForeachSkip(hash, i, fields) ==
    IF i > Len(hash.v) THEN Ok(fields)
    ELSE LET key == hash.v[i][1]
             data_type == FieldDataType(hash.v[i][2])
         IN IF ~data_type.ok THEN SchemaForeachSkip(hash, i + 1, fields)
            ELSE SchemaForeachSkip(hash, i + 1,
                     Append(fields, Field(key.v, data_type.v, TRUE)))

\* the foreach over the schema hash from entry i on, fields pushed so far
RECURSIVE SchemaForeach(_, _, _)
SchemaForeach(hash, i, fields) ==
    IF i > Len(hash.v) THEN Ok(fields)
    ELSE LET key == hash.v[i][1]
             data_type == FieldDataType(hash.v[i][2])
         IN IF ~data_type.ok THEN data_type
            ELSE SchemaForeach(hash, i + 1,
                     Append(fields, Field(key.v, data_type.v, TRUE)))

build_arrow_schema(hash) == SchemaForeach(hash, 1, <<>>)

-----------------------------------------------------------------------------
(* arrow_array *)

\* Array::is_null: an array without null buffer has no null entry
IsNull(array, i) == array.nulls # None /\ ~array.nulls[1][i]

\* XxxArray::from(Vec<Option<T>>) that drops the null bits
ArrayFromOptionsNoNulls(data_type, default, values) ==
    [data_type |-> data_type,
     values |-> [i \in 1..Len(values) |->
                    IF values[i] = None THEN default ELSE values[i][1]],
     nulls |-> None]

\* XxxArray::from(Vec<Option<T>>): a null slot holds the default value
ArrayFromOptions(data_type, default, values) ==
    [data_type |-> data_type,
     values |-> [i \in 1..Len(values) |->
                    IF values[i] = None THEN default ELSE values[i][1]],
     nulls |-> Some([i \in 1..Len(values) |-> values[i] # None])]

\* Float32Array::from(Vec<f32>): no null buffer
Float32ArrayFromVec(flat_values) ==
    [data_type |-> DT("Float32"), values |-> flat_values, nulls |-> None]

\* FixedSizeListArray::new(field, size, values, nulls): try_new(..).unwrap(),
\* and try_new refuses a negative size
FixedSizeListArrayNew(size, values, nulls) ==
    IF size < 0 THEN Panic(<<"Size cannot be negative", size>>)
    ELSE Ok([data_type |-> FixedSizeList(size), values |-> values,
             nulls |-> nulls])

\* Array::len; a FixedSizeListArray of size 0 without null buffer is empty
ArrayLen(array) ==
    IF array.data_type.k = "FixedSizeList"
    THEN IF array.data_type.size = 0 THEN 0
         ELSE Len(array.values.values) \div array.data_type.size
    ELSE Len(array.values)

\* RecordBatch::try_new(schema, columns)
RecordBatchTryNew(fields, arrays) ==
    IF Len(fields) # Len(arrays)
    THEN Err(RuntimeError(<<"number of columns must match number of fields">>))
    ELSE IF Len(arrays) = 0
    THEN Err(RuntimeError(<<"must either specify a row count or at least one column">>))
    ELSE IF \E i \in 1..Len(arrays) : ArrayLen(arrays[i]) # ArrayLen(arrays[1])
    THEN Err(RuntimeError(<<"all columns in a record batch must have the same length">>))
    ELSE IF \E i \in 1..Len(arrays) : arrays[i].data_type # fields[i].data_type
    THEN Err(RuntimeError(<<"column types must match schema types">>))
    ELSE Ok([schema |-> fields, columns |-> arrays,
             num_rows |-> ArrayLen(arrays[1])])

-----------------------------------------------------------------------------
(* conversion.rs: build_record_batch *)

\* HashMap::insert / the push onto the Vec under a key
MapInsert(map, key, value) ==
    [k \in (DOMAIN map) \cup {key} |-> IF k = key THEN value ELSE map[k]]
Push(map, key, value) == [map EXCEPT ![key] = Append(@, value)]

EmptyMap == [k \in {} |-> <<>>]

\* lines 11-36: one empty Vec per schema field, in the map of its type
RECURSIVE InitColumns(_, _, _)
InitColumns(fields, i, acc) ==
    IF i > Len(fields) THEN acc
    ELSE LET field == fields[i]
             k == field.data_type.k
         IN InitColumns(fields, i + 1,
              CASE k = "Utf8" ->
                     [acc EXCEPT !.columns = MapInsert(@, field.name, <<>>)]
                [] k = "Float32" ->
                     [acc EXCEPT !.float_columns = MapInsert(@, field.name, <<>>)]
                [] k = "Int64" ->
                     [acc EXCEPT !.int_columns = MapInsert(@, field.name, <<>>)]
                [] k = "Boolean" ->
                     [acc EXCEPT !.bool_columns = MapInsert(@, field.name, <<>>)]
                [] k = "FixedSizeList" ->
                     [acc EXCEPT !.vector_columns = MapInsert(@, field.name, <<>>)]
                [] OTHER -> acc)

\* the lookup by symbol key only
LookupFieldSymbolOnly(item, name) == Fetch(item, RSym(name))

\* the lookup that takes a field missing under both keys for null
LookupFieldOrNil(item, name) ==
    LET by_symbol == Fetch(item, RSym(name))
        by_string == Fetch(item, RStr(name))
    IN IF by_symbol.ok THEN by_symbol
       ELSE IF by_string.ok THEN by_string ELSE Ok(Nil)

\* the lookup by string key, else by symbol key
LookupFieldStringFirst(item, name) ==
    LET by_string == Fetch(item, RStr(name))
    IN IF by_string.ok THEN by_string ELSE Fetch(item, RSym(name))

\* lines 41-46: the value of a field, by symbol key, else by string key
LookupField(item, name) ==
    LET by_symbol == Fetch(item, RSym(name))
    IN IF by_symbol.ok THEN by_symbol ELSE Fetch(item, RStr(name))

\* lines 86-88: every element of the Ruby array as f32, or the first error
RECURSIVE VecOfF32(_, _, _)
VecOfF32(arr, i, vec) ==
    IF i > Len(arr) THEN Ok(vec)
    ELSE LET f == F64TryConvert(arr[i])
         IN IF ~f.ok THEN f ELSE VecOfF32(arr, i + 1, Append(vec, AsF32(f.v)))

\* lines 48-93: the value of one field pushed onto its column
PushValue(acc, field, value) ==
    LET k == field.data_type.k
        name == field.name
    IN CASE k = "Utf8" ->
              IF value.t = "nil" THEN Ok([acc EXCEPT !.columns = Push(@, name, None)])
              ELSE LET s == StringTryConvert(value)
                   IN IF ~s.ok THEN s
                      ELSE Ok([acc EXCEPT !.columns = Push(@, name, Some(s.v))])
         [] k = "Float32" ->
              IF value.t = "nil" THEN Ok([acc EXCEPT !.float_columns = Push(@, name, None)])
              ELSE LET f == F64TryConvert(value)
                   IN IF ~f.ok THEN f
                      ELSE Ok([acc EXCEPT !.float_columns = Push(@, name, Some(AsF32(f.v)))])
         [] k = "Int64" ->
              IF value.t = "nil" THEN Ok([acc EXCEPT !.int_columns = Push(@, name, None)])
              ELSE LET i == I64TryConvert(value)
                   IN IF ~i.ok THEN i
                      ELSE Ok([acc EXCEPT !.int_columns = Push(@, name, Some(i.v))])
         [] k = "Boolean" ->
              IF value.t = "nil" THEN Ok([acc EXCEPT !.bool_columns = Push(@, name, None)])
              ELSE LET b == BoolTryConvert(value)
                   IN IF ~b.ok THEN b
                      ELSE Ok([acc EXCEPT !.bool_columns = Push(@, name, Some(b.v))])
         [] k = "FixedSizeList" ->
              IF value.t = "nil" THEN Ok([acc EXCEPT !.vector_columns = Push(@, name, None)])
              ELSE LET arr == RArrayTryConvert(value)
                       vec == IF arr.ok THEN VecOfF32(arr.v, 1, <<>>) ELSE arr
                   IN IF ~vec.ok THEN vec
                      ELSE Ok([acc EXCEPT !.vector_columns = Push(@, name, Some(vec.v))])
         [] OTHER -> Ok(acc)

\* the fields of one item, an item with a key of no schema field rejected
RECURSIVE PushFieldsStrict(_, _, _, _)
PushFieldsStrict(acc, fields, item, i) ==
    IF \E j \in 1..Len(item.v) : \A f \in 1..Len(fields) :
          item.v[j][1].v # fields[f].name
    THEN Err(ArgError(<<"unknown key">>))
    ELSE IF i > Len(fields) THEN Ok(acc)
    ELSE LET value == LookupField(item, fields[i].name)
         IN IF ~value.ok THEN value
            ELSE LET pushed == PushValue(acc, fields[i], value.v)
                 IN IF ~pushed.ok THEN pushed
                    ELSE PushFieldsStrict(pushed.v, fields, item, i + 1)

\* lines 40-94: the fields of one item, from field i on
RECURSIVE PushFields(_, _, _, _)
PushFields(acc, fields, item, i) ==
    IF i > Len(fields) THEN Ok(acc)
    ELSE LET value == LookupField(item, fields[i].name)
         IN IF ~value.ok THEN value
            ELSE LET pushed == PushValue(acc, fields[i], value.v)
                 IN IF ~pushed.ok THEN pushed
                    ELSE PushFields(pushed.v, fields, item, i + 1)

\* lines 38-95: the items of the Ruby array, from item r on
RECURSIVE PushItems(_, _, _, _)
PushItems(acc, fields, items, r) ==
    IF r > Len(items) THEN Ok(acc)
    ELSE IF items[r].t # "hash" THEN Err(TypeError("Hash"))
    ELSE LET pushed == PushFields(acc, fields, items[r], 1)
         IN IF ~pushed.ok THEN pushed
            ELSE PushItems(pushed.v, fields, items, r + 1)

\* the flat array of a vector column without the check of the length
RECURSIVE FlatValuesUnchecked(_, _, _, _)
FlatValuesUnchecked(values, list_size, r, flat_values) ==
    IF r > Len(values) THEN Ok(flat_values)
    ELSE IF values[r] # None
    THEN FlatValuesUnchecked(values, list_size, r + 1, flat_values \o values[r][1])
    ELSE IF list_size < 0 THEN Panic(<<"capacity overflow">>)
    ELSE FlatValuesUnchecked(values, list_size, r + 1,
                             flat_values \o [j \in 1..list_size |-> 0])

\* lines 120-137: the flat array of a vector column, from entry r on; a
\* negative list_size as usize is larger than any length, and vec![0.0; n]
\* of that n panics
RECURSIVE FlatValues(_, _, _, _)
FlatValues(values, list_size, r, flat_values) ==
    IF r > Len(values) THEN Ok(flat_values)
    ELSE IF values[r] # None
    THEN IF Len(values[r][1]) # list_size
         THEN Err(ArgError(<<"Vector dimension mismatch",
                             list_size, Len(values[r][1])>>))
         ELSE FlatValues(values, list_size, r + 1, flat_values \o values[r][1])
    ELSE IF list_size < 0 THEN Panic(<<"capacity overflow">>)
    ELSE FlatValues(values, list_size, r + 1,
                    flat_values \o [j \in 1..list_size |-> 0])

\* lines 100-151: the Arrow array of one schema field
FieldArray(acc, field) ==
    LET k == field.data_type.k
        name == field.name
    IN CASE k = "Utf8" ->
              Ok(ArrayFromOptions(field.data_type, "", acc.columns[name]))
         [] k = "Float32" ->
              Ok(ArrayFromOptions(field.data_type, 0, acc.float_columns[name]))
         [] k = "Int64" ->
              Ok(ArrayFromOptions(field.data_type, 0, acc.int_columns[name]))
         [] k = "Boolean" ->
              Ok(ArrayFromOptions(field.data_type, FALSE, acc.bool_columns[name]))
         [] k = "FixedSizeList" ->
              LET flat_values == FlatValues(acc.vector_columns[name],
                                            field.data_type.size, 1, <<>>)
              IN IF ~flat_values.ok THEN flat_values
                 ELSE FixedSizeListArrayNew(field.data_type.size,
                          Float32ArrayFromVec(flat_values.v), None)
         [] OTHER -> Err(RuntimeError(<<"Unsupported data type", field.data_type>>))

\* lines 97-154: the arrays of the schema fields, from field i on
RECURSIVE BuildArrays(_, _, _, _)
BuildArrays(acc, fields, i, arrays) ==
    IF i > Len(fields) THEN Ok(arrays)
    ELSE LET array == FieldArray(acc, fields[i])
         IN IF ~array.ok THEN array
            ELSE BuildArrays(acc, fields, i + 1, Append(arrays, array.v))

build_record_batch(items, fields) ==
    LET empty == [columns |-> EmptyMap, float_columns |-> EmptyMap,
                  int_columns |-> EmptyMap, bool_columns |-> EmptyMap,
                  vector_columns |-> EmptyMap]
        pushed == PushItems(InitColumns(fields, 1, empty), fields, items, 1)
        arrays == IF pushed.ok THEN BuildArrays(pushed.v, fields, 1, <<>>) ELSE pushed
    IN IF ~arrays.ok THEN arrays ELSE RecordBatchTryNew(fields, arrays.v)

-----------------------------------------------------------------------------
(* conversion.rs: convert_batch_to_ruby *)

\* RHash::aset: replace the value of a present key, else append the pair
ASet(doc, key, value) ==
    IF \E i \in 1..Len(doc.v) : doc.v[i][1] = key
    THEN RHashOf([i \in 1..Len(doc.v) |->
                    IF doc.v[i][1] = key THEN <<key, value>> ELSE doc.v[i]])
    ELSE RHashOf(Append(doc.v, <<key, value>>))

\* the downcast of a column to the array type of the claimed data type
DowncastOk(column, k) == column.data_type.k = k

\* the Ruby array of the first window of a vector column, whatever the row
VectorRowOfFirstWindow(array, row_idx, list_size) ==
    RArr([i \in 1..list_size |-> RFloat(array.values.values[i])])

\* lines 222-230: the Ruby array of one row of a vector column
VectorRow(array, row_idx, list_size) ==
    RArr([i \in 1..list_size |->
            RFloat(array.values.values[(row_idx - 1) * array.data_type.size + i])])

\* a column of any other data type ends the decoding
OtherColumnRejected(doc, field) ==
    Err(RuntimeError(<<"Unsupported data type", field.data_type>>))

\* lines 233-236: a column of any other data type leaves the document as it is
OtherColumn(doc, field) == Ok(doc)

\* lines 174-236: the entry of one column in the document of row row_idx
ColumnEntry(doc, field, column, row_idx) ==
    LET k == field.data_type.k
        key == RSym(field.name)
    IN CASE k = "Utf8" ->
              IF ~DowncastOk(column, "Utf8")
              THEN Err(RuntimeError(<<"Failed to cast to StringArray">>))
              ELSE IF IsNull(column, row_idx) THEN Ok(ASet(doc, key, Nil))
              ELSE Ok(ASet(doc, key, RStr(column.values[row_idx])))
         [] k = "Float32" ->
              IF ~DowncastOk(column, "Float32")
              THEN Err(RuntimeError(<<"Failed to cast to Float32Array">>))
              ELSE IF IsNull(column, row_idx) THEN Ok(ASet(doc, key, Nil))
              ELSE Ok(ASet(doc, key, RFloat(column.values[row_idx])))
         [] k = "Int64" ->
              IF ~DowncastOk(column, "Int64")
              THEN Err(RuntimeError(<<"Failed to cast to Int64Array">>))
              ELSE IF IsNull(column, row_idx) THEN Ok(ASet(doc, key, Nil))
              ELSE Ok(ASet(doc, key, RInt(column.values[row_idx])))
         [] k = "Boolean" ->
              IF ~DowncastOk(column, "Boolean")
              THEN Err(RuntimeError(<<"Failed to cast to BooleanArray">>))
              ELSE IF IsNull(column, row_idx) THEN Ok(ASet(doc, key, Nil))
              ELSE Ok(ASet(doc, key, RBool(column.values[row_idx])))
         [] k = "FixedSizeList" ->
              IF ~DowncastOk(column, "FixedSizeList")
              THEN Err(RuntimeError(<<"Failed to cast to FixedSizeListArray">>))
              ELSE IF IsNull(column, row_idx) THEN Ok(ASet(doc, key, Nil))
              ELSE IF ~DowncastOk(column.values, "Float32")
              THEN Err(RuntimeError(<<"Failed to cast vector values to Float32Array">>))
              ELSE Ok(ASet(doc, key,
                           VectorRow(column, row_idx, field.data_type.size)))
         [] OTHER -> OtherColumn(doc, field)

\* lines 170-237: the columns of one row, from column col_idx on
RECURSIVE RowDocument(_, _, _, _)
RowDocument(doc, b, row_idx, col_idx) ==
    IF col_idx > Len(b.schema) THEN Ok(doc)
    ELSE LET entry == ColumnEntry(doc, b.schema[col_idx],
                                  b.columns[col_idx], row_idx)
         IN IF ~entry.ok THEN entry
            ELSE RowDocument(entry.v, b, row_idx, col_idx + 1)

\* lines 167-240: the rows of the batch, from row row_idx on
RECURSIVE RowDocuments(_, _, _)
RowDocuments(b, row_idx, docs) ==
    IF row_idx > b.num_rows THEN Ok(docs)
    ELSE LET doc == RowDocument(RHashOf(<<>>), b, row_idx, 1)
         IN IF ~doc.ok THEN doc
            ELSE RowDocuments(b, row_idx + 1, Append(docs, doc.v))

convert_batch_to_ruby(b) == RowDocuments(b, 1, <<>>)

-----------------------------------------------------------------------------
(* The inputs of the model *)

\* the keys of a schema hash, by position
Names == <<"a", "b", "c", "d">>

ScalarTags == {"string", "float32", "float64", "int32", "int64", "boolean"}

\* {type: "vector", dimension: d}
VectorDescriptor(d) ==
    RHashOf(<<<<RSym("type"), RStr("vector")>>, <<RSym("dimension"), RInt(d)>>>>)

\* {element: "float64", dimension: d, type: "vector"}
VectorDescriptorWithElement(d) ==
    RHashOf(<<<<RSym("element"), RStr("float64")>>,
              <<RSym("dimension"), RInt(d)>>, <<RSym("type"), RStr("vector")>>>>)

\* the type descriptors of a schema hash: the bare tags, an unknown tag, the
\* vector descriptors, one of them with another key, and structured
\* descriptors that lack a key or name another type
Descriptors ==
    {RStr(tag) : tag \in ScalarTags \cup {"currency"}}
    \cup {VectorDescriptor(d) : d \in {-1, 0, 1, MaxDim}}
    \cup {VectorDescriptorWithElement(1),
          RHashOf(<<>>),
          RHashOf(<<<<RSym("type"), RStr("vector")>>>>),
          RHashOf(<<<<RSym("dimension"), RInt(MaxDim)>>>>),
          RHashOf(<<<<RSym("type"), RStr("float32")>>>>),
          RHashOf(<<<<RSym("type"), RStr("matrix")>>,
                    <<RSym("dimension"), RInt(MaxDim)>>>>)}

\* the vector descriptors of no positive dimension, or with another key
EdgeDescriptors ==
    {VectorDescriptor(-1), VectorDescriptor(0), VectorDescriptorWithElement(1)}

\* the schema hashes of at most MaxFields entries; those of more than two
\* entries are of the other descriptors
SchemaHashes ==
    UNION {{RHashOf([i \in 1..n |-> <<RSym(Names[i]), ds[i]>>]) :
               ds \in [1..n -> IF n > 2 THEN Descriptors \ EdgeDescriptors
                                        ELSE Descriptors]} : n \in 1..MaxFields}

\* a Float that no f32 holds: 1.0 plus one f64 step
Inexact == RFloat(F32Ulp + 1)

\* a Ruby array of n Floats that f32 holds, and one of Integers and Floats
\* that f32 does not hold; the two differ in every position
VectorA(n) == RArr([i \in 1..n |-> RFloat(i * F32Ulp)])
VectorB(n) ==
    RArr([i \in 1..n |-> IF i % 2 = 1 THEN RInt(i + n)
                                      ELSE RFloat((i + n) * F32Ulp + 1)])

\* the value of the data type that a record holds in the usual case
Sample(data_type) ==
    CASE data_type.k = "Utf8" -> RStr("s")
      [] data_type.k = "Float32" -> RFloat(F32Ulp)
      [] data_type.k = "Float64" -> RFloat(F32Ulp)
      [] data_type.k = "Boolean" -> RBool(TRUE)
      [] data_type.k = "FixedSizeList" -> VectorA(data_type.size)
      [] OTHER -> RInt(1)

\* the values a record holds for a field of the data type: null, values of
\* the type, and values of another type or another length
FieldValues(data_type) ==
    {Sample(data_type)} \cup
    CASE data_type.k = "Utf8" -> {Nil, RInt(1)}
      [] data_type.k = "Float32" -> {Nil, Inexact, RStr("s")}
      [] data_type.k = "Int64" -> {Nil, Inexact, RStr("s")}
      [] data_type.k = "Boolean" -> {Nil, RBool(FALSE), RStr("s")}
      [] data_type.k = "FixedSizeList" ->
            {Nil, VectorB(data_type.size),
             VectorA(data_type.size - 1), VectorA(data_type.size + 1),
             RArr([i \in 1..data_type.size |-> RStr("s")])}
      [] OTHER -> {}

\* the pairs a record holds for a field: none, or a value under the symbol
\* key; for a string field also the value under the string key, under both
\* keys, and next to a key that is no schema field
FieldEntries(field) ==
    {<<>>}
    \cup {<<<<RSym(field.name), value>>>> : value \in FieldValues(field.data_type)}
    \cup IF field.data_type.k = "Utf8"
         THEN {<<<<RStr(field.name), RStr("s")>>>>,
               <<<<RStr(field.name), RStr("s")>>, <<RSym(field.name), Nil>>>>,
               <<<<RSym("extra"), RInt(1)>>, <<RSym(field.name), RStr("s")>>>>}
         ELSE {}

\* the records for the schema fields from field i on
RECURSIVE RecordPairs(_, _)
RecordPairs(fields, i) ==
    IF i > Len(fields) THEN {<<>>}
    ELSE {entry \o rest : entry \in FieldEntries(fields[i]),
                          rest \in RecordPairs(fields, i + 1)}

\* the items of a Ruby array: the records, and one item that is no hash
Records(fields) == {RHashOf(pairs) : pairs \in RecordPairs(fields, 1)} \cup {RInt(1)}

\* the Ruby arrays of at most n records
RECURSIVE RecordArrays(_, _)
RecordArrays(fields, n) ==
    IF n = 0 THEN {<<>>}
    ELSE LET shorter == RecordArrays(fields, n - 1)
         IN shorter \cup {Append(items, item) :
                            items \in {s \in shorter : Len(s) = n - 1},
                            item \in Records(fields)}

DataArrays(fields) == RecordArrays(fields, MaxCells \div Len(fields))

-----------------------------------------------------------------------------
(* The state machine: resolve the schema, encode an array, decode the batch *)

NoResult == Err([exception |-> "none", msg |-> <<>>])

Init ==
    /\ pc = "new"
    /\ schema_hash \in SchemaHashes
    /\ schema = NoResult
    /\ data = <<>>
    /\ batch = NoResult
    /\ documents = NoResult
    /\ dataset = None
    /\ result = NoResult
    /\ num_rows = 0
    /\ num_partitions = 0

\* build_arrow_schema applied to the schema hash (as LancelotDataset::create does)
Resolve ==
    /\ pc = "new"
    /\ schema' = build_arrow_schema(schema_hash)
    /\ pc' = "resolved"
    /\ UNCHANGED <<schema_hash, data, batch, documents, dataset, result,
                   num_rows, num_partitions>>

\* build_record_batch applied to an array of records (as add_data does)
Encode ==
    /\ pc = "resolved"
    /\ schema.ok
    /\ \E items \in DataArrays(schema.v) :
          /\ data' = items
          /\ batch' = build_record_batch(items, schema.v)
    /\ pc' = "encoded"
    /\ UNCHANGED <<schema_hash, schema, documents, dataset, result,
                   num_rows, num_partitions>>

\* convert_batch_to_ruby applied to the batch (as scan_all does)
Decode ==
    /\ pc = "encoded"
    /\ batch.ok
    /\ documents' = convert_batch_to_ruby(batch.v)
    /\ pc' = "decoded"
    /\ UNCHANGED <<schema_hash, schema, data, batch, dataset, result,
                   num_rows, num_partitions>>

Next == Resolve \/ Encode \/ Decode

Spec == Init /\ [][Next]_vars

-----------------------------------------------------------------------------
(* dataset.rs: the LancelotDataset object over the storage engine.  The
   arguments of its methods are of the parameter types; the outcome of a
   storage call is the engine's: it succeeds or fails. *)

\* the Lance dataset behind the handle: its schema and the batches appended
Dataset(fields, batches) == [schema |-> fields, batches |-> batches]

\* Dataset::count_rows
RECURSIVE CountRows(_, _)
CountRows(batches, i) ==
    IF i > Len(batches) THEN 0
    ELSE batches[i].num_rows + CountRows(batches, i + 1)

NotOpened == Err(RuntimeError(<<"Dataset not opened">>))

\* the error of a storage call that failed
StorageError == Err(RuntimeError(<<"storage">>))

\* the operations of the object; pc is the last one called
Operations ==
    {"new", "path", "create", "open", "add_data", "count_rows", "schema",
     "scan_all", "scan_limit", "create_vector_index", "vector_search",
     "create_text_index", "text_search", "multi_column_text_search",
     "filter_scan"}

\* the position of the object: constructed, or after one of its operations
InObject == pc \in Operations

\* the schema hashes create is called with: fields the encoder takes, a
\* field it does not, vectors of dimension MaxDim and 0, a type that does
\* not resolve; and the hash {text: "string", score: "float32"}
ObjectDescriptors ==
    {RStr("string"), RStr("float64"), VectorDescriptor(MaxDim),
     VectorDescriptor(0), RStr("currency")}

TextAndScore ==
    RHashOf(<<<<RSym("text"), RStr("string")>>, <<RSym("score"), RStr("float32")>>>>)

\* hashes of more than two entries are of strings and the unknown type
ObjectSchemaHashes ==
    UNION {{RHashOf([i \in 1..n |-> <<RSym(Names[i]), ds[i]>>]) :
               ds \in [1..n -> IF n > 2 THEN {RStr("string"), RStr("currency")}
                                        ELSE ObjectDescriptors]} :
           n \in 1..MaxFields}
    \cup {TextAndScore}

\* a record with the usual value of its first n fields
SampleRecord(fields, n) ==
    RHashOf([i \in 1..n |-> <<RSym(fields[i].name), Sample(fields[i].data_type)>>])

\* the Ruby arrays handed to add_data: at most n records, all complete or
\* the last one without the last field
ObjectArrays(fields, n) ==
    LET complete == SampleRecord(fields, Len(fields))
        partial == SampleRecord(fields, Len(fields) - 1)
    IN {[i \in 1..k |-> complete] : k \in 0..n}
       \cup {[i \in 1..k |-> IF i < k THEN complete ELSE partial] : k \in 1..n}

\* the object after LancelotDataset::new, before create is called with the hash
DatasetInit ==
    /\ pc = "new"
    /\ schema_hash \in ObjectSchemaHashes
    /\ schema = NoResult
    /\ data = <<>>
    /\ batch = NoResult
    /\ documents = NoResult
    /\ dataset = None
    /\ result = NoResult
    /\ num_rows = 0
    /\ num_partitions = 0

\* the handle with no dataset borrowed as an empty dataset
BorrowedOrEmpty(handle) ==
    IF handle = None THEN Ok(Dataset(<<>>, <<>>)) ELSE Ok(handle[1])

\* self.dataset.borrow().as_ref().ok_or_else(.. "Dataset not opened")
Borrowed(handle) ==
    IF handle = None THEN NotOpened ELSE Ok(handle[1])

\* the handle after an operation that failed, were it taken first
ClearedHandle(handle) == None

\* lines 57, 68: an error leaves through ? before self.dataset.replace
KeptHandle(handle) == handle

\* the locals of create_vector_index are gone when another operation runs
NoIndex == num_rows' = 0 /\ num_partitions' = 0

\* an operation that returns r and leaves the object as it is
Returns(op, r) ==
    /\ pc' = op
    /\ result' = r
    /\ data' = <<>>
    /\ batch' = NoResult
    /\ NoIndex
    /\ UNCHANGED <<schema_hash, schema, documents, dataset>>

\* lines 34-36: path
path ==
    /\ InObject
    /\ Returns("path", Ok(RStr("path")))

\* lines 38-60: create; the handle is replaced after Dataset::write succeeded
create ==
    /\ InObject
    /\ pc' = "create"
    /\ schema' = build_arrow_schema(schema_hash)
    /\ IF ~schema'.ok
       THEN result' = schema' /\ dataset' = KeptHandle(dataset)
       ELSE \E written \in BOOLEAN :
               IF written
               THEN /\ dataset' = Some(Dataset(schema'.v, <<>>))
                    /\ result' = Ok(Nil)
               ELSE /\ dataset' = KeptHandle(dataset)
                    /\ result' = StorageError
    /\ data' = <<>>
    /\ batch' = NoResult
    /\ NoIndex
    /\ UNCHANGED <<schema_hash, documents>>

\* the dataset another object left at the path: string columns, no rows
ForeignDataset ==
    Dataset([i \in 1..MaxFields |-> Field(Names[i], DT("Utf8"), TRUE)], <<>>)

\* lines 62-71: open; the dataset at the path is the one of the handle, or
\* the one left there; the handle is replaced after Dataset::open succeeded
open ==
    /\ InObject
    /\ pc' = "open"
    /\ \E opened \in BOOLEAN :
          IF opened
          THEN /\ dataset' = IF dataset = None THEN Some(ForeignDataset)
                                               ELSE dataset
               /\ result' = Ok(Nil)
          ELSE /\ dataset' = KeptHandle(dataset)
               /\ result' = StorageError
    /\ data' = <<>>
    /\ batch' = NoResult
    /\ NoIndex
    /\ UNCHANGED <<schema_hash, schema, documents>>

\* the arrays of records handed to add_data: without a handle the array is
\* not looked at; with one, the rows stored and added stay within MaxCells,
\* and so does the number of batches
AddDataArrays ==
    IF dataset = None THEN {<<>>, <<RHashOf(<<>>)>>}
    ELSE IF Len(dataset[1].batches) >= MaxCells THEN {<<>>}
    ELSE ObjectArrays(dataset[1].schema,
                      (MaxCells \div Len(dataset[1].schema))
                          - CountRows(dataset[1].batches, 1))

\* data.len() of every array but the empty one taken as not 0
NeverEmpty(items) == FALSE

\* line 79: data.len() == 0
IsEmpty(items) == Len(items) = 0

\* lines 73-106: add_data; the schema is the dataset's; the caller looks at
\* the dataset between two calls
add_data ==
    /\ InObject
    /\ pc # "add_data"
    /\ pc' = "add_data"
    /\ \E items \in AddDataArrays :
          /\ data' = items
          /\ IF ~Borrowed(dataset).ok
             THEN /\ result' = Borrowed(dataset)
                  /\ batch' = NoResult
                  /\ UNCHANGED <<schema, dataset>>
             ELSE IF IsEmpty(items)
             THEN /\ result' = Ok(Nil)
                  /\ batch' = NoResult
                  /\ UNCHANGED <<schema, dataset>>
             ELSE /\ schema' = Ok(Borrowed(dataset).v.schema)
                  /\ batch' = build_record_batch(items, schema'.v)
                  /\ IF ~batch'.ok
                     THEN result' = batch' /\ dataset' = dataset
                     ELSE \E appended \in BOOLEAN :
                             IF appended
                             THEN /\ dataset' = Some(Dataset(Borrowed(dataset).v.schema,
                                        Append(Borrowed(dataset).v.batches, batch'.v)))
                                  /\ result' = Ok(Nil)
                             ELSE /\ dataset' = dataset
                                  /\ result' = StorageError
    /\ NoIndex
    /\ UNCHANGED <<schema_hash, documents>>

\* lines 108-120: count_rows
count_rows ==
    /\ InObject
    /\ IF ~Borrowed(dataset).ok THEN Returns("count_rows", Borrowed(dataset))
       ELSE \E counted \in BOOLEAN :
               Returns("count_rows",
                       IF counted
                       THEN Ok(RInt(CountRows(Borrowed(dataset).v.batches, 1)))
                       ELSE StorageError)

\* lines 122-136: schema; the hash is the same whatever the dataset
dataset_schema ==
    /\ InObject
    /\ IF ~Borrowed(dataset).ok THEN Returns("schema", Borrowed(dataset))
       ELSE Returns("schema", Ok(TextAndScore))

\* lines 153-161: the documents of the batches from batch i on, in order
RECURSIVE BatchDocuments(_, _, _)
BatchDocuments(batches, i, result_array) ==
    IF i > Len(batches) THEN Ok(RArr(result_array))
    ELSE LET batch_docs == convert_batch_to_ruby(batches[i])
         IN IF ~batch_docs.ok THEN batch_docs
            ELSE BatchDocuments(batches, i + 1, result_array \o batch_docs.v)

\* the first limit of the documents: what the scanner's limit leaves
Limited(docs, limit) ==
    IF ~docs.ok \/ Len(docs.v.v) <= limit THEN docs
    ELSE Ok(RArr(SubSeq(docs.v.v, 1, limit)))

\* the rows a filter or a search selects are the engine's: none, or all
Selected(ds) == {Ok(RArr(<<>>)), BatchDocuments(ds.batches, 1, <<>>)}

\* lines 138-168: scan_all
scan_all ==
    /\ InObject
    /\ IF ~Borrowed(dataset).ok THEN Returns("scan_all", Borrowed(dataset))
       ELSE \E scanned \in BOOLEAN :
               Returns("scan_all",
                       IF scanned
                       THEN BatchDocuments(Borrowed(dataset).v.batches, 1, <<>>)
                       ELSE StorageError)

\* lines 170-203: scan_limit
scan_limit ==
    /\ InObject
    /\ IF ~Borrowed(dataset).ok THEN Returns("scan_limit", Borrowed(dataset))
       ELSE \E limit \in {0, 1}, scanned \in BOOLEAN :
               Returns("scan_limit",
                       IF scanned
                       THEN Limited(BatchDocuments(Borrowed(dataset).v.batches,
                                                   1, <<>>), limit)
                       ELSE StorageError)

\* line 219
MaxPartitions == 256

\* line 216: below this many rows the dataset is a small one
SmallDataset == 256

\* line 217
RowsPerPartition == 4

\* num_rows / 4, without the lower limit of one partition
NumPartitionsOfQuotient(rows) ==
    IF rows < SmallDataset THEN rows \div RowsPerPartition ELSE MaxPartitions

\* lines 216-220: num_partitions
NumPartitions(rows) ==
    IF rows < SmallDataset
    THEN IF rows \div RowsPerPartition > 1 THEN rows \div RowsPerPartition ELSE 1
    ELSE MaxPartitions

\* lines 205-235: create_vector_index
create_vector_index ==
    /\ InObject
    /\ pc' = "create_vector_index"
    /\ IF ~Borrowed(dataset).ok
       THEN result' = Borrowed(dataset) /\ NoIndex
       ELSE \E counted \in BOOLEAN :
               IF ~counted
               THEN result' = StorageError /\ NoIndex
               ELSE /\ num_rows' = CountRows(Borrowed(dataset).v.batches, 1)
                    /\ num_partitions' = NumPartitions(num_rows')
                    /\ \E indexed \in BOOLEAN :
                          result' = IF indexed THEN Ok(Nil) ELSE StorageError
    /\ data' = <<>>
    /\ batch' = NoResult
    /\ UNCHANGED <<schema_hash, schema, documents, dataset>>

\* collect::<Result<Vec<_>, _>>() of the conversions of the items: the
\* values, or the first error
Collected(results) ==
    LET failed == {i \in 1..Len(results) : ~results[i].ok}
    IN IF failed = {}
       THEN Ok([i \in 1..Len(results) |-> results[i].v])
       ELSE results[CHOOSE i \in failed : \A j \in failed : i <= j]

\* lines 243-246: the query vector as f64 values
QueryVector(query_vector) ==
    Collected([i \in 1..Len(query_vector.v) |-> F64TryConvert(query_vector.v[i])])

\* lines 353-356: the column names as Strings
ColumnNames(columns) ==
    Collected([i \in 1..Len(columns.v) |-> StringTryConvert(columns.v[i])])

\* lines 237-278: vector_search; the query vector is converted after the
\* handle is borrowed
vector_search ==
    /\ InObject
    /\ IF ~Borrowed(dataset).ok THEN Returns("vector_search", Borrowed(dataset))
       ELSE \E query_vector \in {VectorA(1), RArr(<<RStr("s")>>)} :
               IF ~QueryVector(query_vector).ok
               THEN Returns("vector_search", QueryVector(query_vector))
               ELSE \E r \in Selected(Borrowed(dataset).v) \cup {StorageError} :
                       Returns("vector_search", r)

\* lines 280-299: create_text_index
create_text_index ==
    /\ InObject
    /\ IF ~Borrowed(dataset).ok THEN Returns("create_text_index", Borrowed(dataset))
       ELSE \E indexed \in BOOLEAN :
               Returns("create_text_index",
                       IF indexed THEN Ok(Nil) ELSE StorageError)

\* lines 301-344: text_search
text_search ==
    /\ InObject
    /\ IF ~Borrowed(dataset).ok THEN Returns("text_search", Borrowed(dataset))
       ELSE \E r \in Selected(Borrowed(dataset).v) \cup {StorageError} :
               Returns("text_search", r)

\* lines 346-395: multi_column_text_search; the column names are converted
\* after the handle is borrowed
multi_column_text_search ==
    /\ InObject
    /\ IF ~Borrowed(dataset).ok
       THEN Returns("multi_column_text_search", Borrowed(dataset))
       ELSE \E columns \in {RArr(<<RStr("a")>>), RArr(<<RInt(1)>>)} :
               IF ~ColumnNames(columns).ok
               THEN Returns("multi_column_text_search", ColumnNames(columns))
               ELSE \E r \in Selected(Borrowed(dataset).v) \cup {StorageError} :
                       Returns("multi_column_text_search", r)

\* lines 397-438: filter_scan
filter_scan ==
    /\ InObject
    /\ IF ~Borrowed(dataset).ok THEN Returns("filter_scan", Borrowed(dataset))
       ELSE \E r \in Selected(Borrowed(dataset).v) \cup {StorageError} :
               Returns("filter_scan", r)

DatasetNext ==
    \/ path
    \/ create
    \/ open
    \/ add_data
    \/ count_rows
    \/ dataset_schema
    \/ scan_all
    \/ scan_limit
    \/ create_vector_index
    \/ vector_search
    \/ create_text_index
    \/ text_search
    \/ multi_column_text_search
    \/ filter_scan

DatasetSpec == DatasetInit /\ [][DatasetNext]_vars

-----------------------------------------------------------------------------
(* The number of partitions of create_vector_index as a function of the
   number of rows the dataset counts *)

\* the row counts reach past SmallDataset
MaxRows == 260

IndexInit ==
    /\ pc = "count_rows"
    /\ schema_hash = RHashOf(<<>>)
    /\ schema = NoResult
    /\ data = <<>>
    /\ batch = NoResult
    /\ documents = NoResult
    /\ dataset = None
    /\ result = NoResult
    /\ num_rows \in 0..MaxRows
    /\ num_partitions = 0

\* lines 216-220 applied to the row count
Partition ==
    /\ pc = "count_rows"
    /\ pc' = "num_partitions"
    /\ num_partitions' = NumPartitions(num_rows)
    /\ UNCHANGED <<schema_hash, schema, data, batch, documents, dataset, result, num_rows>>

IndexSpec == IndexInit /\ [][Partition]_vars

-----------------------------------------------------------------------------
(* What a record supplies, read off the record itself *)

HasKey(item, key) == \E i \in 1..Len(item.v) : item.v[i][1] = key
ValueUnder(item, key) == item.v[CHOOSE i \in 1..Len(item.v) : item.v[i][1] = key][2]

\* the record has the field, under the symbol key or under the string key
Present(item, name) == HasKey(item, RSym(name)) \/ HasKey(item, RStr(name))

\* the value the record gives the field: the symbol key's when it has one
Given(item, name) ==
    IF HasKey(item, RSym(name)) THEN ValueUnder(item, RSym(name))
    ELSE ValueUnder(item, RStr(name))

\* f32 holds the number of f64 steps u
IsF32(u) == u % F32Ulp = 0

\* the value is of the data type
OfType(value, data_type) ==
    CASE data_type.k = "Utf8" -> value.t = "str"
      [] data_type.k = "Float32" -> value.t = "float" /\ IsF32(value.v)
      [] data_type.k = "Float64" -> value.t = "float"
      [] data_type.k \in {"Int64", "Int32"} -> value.t = "int"
      [] data_type.k = "Boolean" -> value.t = "bool"
      [] data_type.k = "FixedSizeList" ->
            /\ value.t = "array"
            /\ Len(value.v) = data_type.size
            /\ \A i \in 1..Len(value.v) : value.v[i].t = "float" /\ IsF32(value.v[i].v)
      [] OTHER -> FALSE

\* the array of records validates against the schema
Validates(items, fields) ==
    \A r \in 1..Len(items) :
        /\ items[r].t = "hash"
        /\ \A f \in 1..Len(fields) :
              /\ Present(items[r], fields[f].name)
              /\ \/ Given(items[r], fields[f].name) = Nil
                 \/ OfType(Given(items[r], fields[f].name), fields[f].data_type)

ScalarKinds == {"Utf8", "Float32", "Int64", "Boolean"}

\* the entry of the field in the decoded document of record r
Decoded(r, name) == Fetch(documents.v[r], RSym(name))

-----------------------------------------------------------------------------
(* Round trip and null propagation *)

\* C1: for every schema of the resolver and every array of records that
\* validates against it, encode succeeds and decode of the batch returns as
\* many documents as records, in order, each field of each document equal to
\* the value the record gave: nulls null, vectors element for element.
C1_RoundTrip ==
    (pc \in {"encoded", "decoded"} /\ Validates(data, schema.v)) =>
        /\ batch.ok
        /\ pc = "decoded" =>
              /\ documents.ok
              /\ Len(documents.v) = Len(data)
              /\ \A r \in 1..Len(data) : \A f \in 1..Len(schema.v) :
                    Decoded(r, schema.v[f].name)
                        = Ok(Given(data[r], schema.v[f].name))

\* C2: a record whose vector field is null is encoded as a row the
\* validity bits mark null, and decode emits null for that row.
C2_NullVectorRow ==
    pc = "decoded" =>
        \A r \in 1..Len(data) : \A f \in 1..Len(schema.v) :
            (/\ schema.v[f].data_type.k = "FixedSizeList"
             /\ Given(data[r], schema.v[f].name) = Nil) =>
                /\ IsNull(batch.v.columns[f], r)
                /\ documents.ok
                /\ Decoded(r, schema.v[f].name) = Ok(Nil)

\* the value decode emits for a non-null value of a scalar field
ScalarImage(value, data_type) ==
    CASE data_type.k = "Utf8" -> value
      [] data_type.k = "Float32" ->
            RFloat(AsF32(IF value.t = "int" THEN value.v * F32Ulp ELSE value.v))
      [] data_type.k = "Int64" -> RInt(I64TryConvert(value).v)
      [] data_type.k = "Boolean" -> RBool(BoolTryConvert(value).v)

\* C3: a null of a string, float32, int64 or boolean field comes back from
\* encode and decode as null at the same record index, and the non-null
\* scalar fields of the same record come back with their own values.
C3_ScalarNullPropagation ==
    pc = "decoded" =>
        /\ documents.ok
        /\ \A f \in 1..Len(schema.v) :
              schema.v[f].data_type.k \in ScalarKinds =>
                 /\ Len(documents.v) = Len(data)
                 /\ \A r \in 1..Len(data) :
                       LET given == Given(data[r], schema.v[f].name)
                       IN Decoded(r, schema.v[f].name)
                            = Ok(IF given = Nil THEN Nil
                                 ELSE ScalarImage(given, schema.v[f].data_type))

\* a decoded record with a null scalar field next to a non-null scalar field
C3_Witness ==
    /\ pc = "decoded"
    /\ \E r \in 1..Len(data) : \E f, g \in 1..Len(schema.v) :
          /\ schema.v[f].data_type.k \in ScalarKinds
          /\ schema.v[g].data_type.k \in ScalarKinds
          /\ Given(data[r], schema.v[f].name) = Nil
          /\ Given(data[r], schema.v[g].name) # Nil
          /\ Decoded(r, schema.v[f].name) = Ok(Nil)
          /\ Decoded(r, schema.v[g].name).v # Nil

-----------------------------------------------------------------------------
(* Dimension enforcement and the order of errors *)

\* encode assembles a column of the data type
Assembled(data_type) ==
    \/ data_type.k \in ScalarKinds
    \/ data_type.k = "FixedSizeList" /\ data_type.size >= 0

\* the conversion of encode accepts the non-null value for the data type
Accepts(value, data_type) ==
    CASE data_type.k = "Utf8" -> StringTryConvert(value).ok
      [] data_type.k = "Float32" -> F64TryConvert(value).ok
      [] data_type.k = "Int64" -> I64TryConvert(value).ok
      [] data_type.k = "Boolean" -> BoolTryConvert(value).ok
      [] data_type.k = "FixedSizeList" ->
            /\ value.t = "array"
            /\ \A i \in 1..Len(value.v) : F64TryConvert(value.v[i]).ok
      [] OTHER -> TRUE

\* the value is a vector of another length than the field's dimension
WrongLength(value, data_type) ==
    /\ data_type.k = "FixedSizeList"
    /\ value.t = "array"
    /\ Len(value.v) # data_type.size

\* record r supplies a vector of the wrong length for field f
WrongLengthAt(r, f) ==
    /\ data[r].t = "hash"
    /\ Present(data[r], schema.v[f].name)
    /\ WrongLength(Given(data[r], schema.v[f].name), schema.v[f].data_type)

\* record r lacks field f under both keys
MissingAt(r, f) ==
    /\ data[r].t = "hash"
    /\ ~Present(data[r], schema.v[f].name)

\* the entry of record r for field f is one encode has to reject
OffendingAt(r, f) ==
    \/ data[r].t # "hash"
    \/ MissingAt(r, f)
    \/ /\ Given(data[r], schema.v[f].name) # Nil
       /\ ~Accepts(Given(data[r], schema.v[f].name), schema.v[f].data_type)
    \/ WrongLengthAt(r, f)

\* (r1, f1) comes before (r2, f2) in the order encode reads the entries
Before(r1, f1, r2, f2) == r1 < r2 \/ (r1 = r2 /\ f1 < f2)

\* (r, f) is the first entry, in reading order, that encode has to reject
FirstOffendingAt(r, f) ==
    /\ OffendingAt(r, f)
    /\ \A r1 \in 1..Len(data) : \A f1 \in 1..Len(schema.v) :
          Before(r1, f1, r, f) => ~OffendingAt(r1, f1)

DimensionMismatch(expected, actual) ==
    Err(ArgError(<<"Vector dimension mismatch", expected, actual>>))

IsDimensionMismatch(r) ==
    /\ ~r.ok
    /\ r.v.exception = "ArgumentError"
    /\ r.v.msg[1] = "Vector dimension mismatch"

C5_MismatchRaisedPerRecord ==
    (pc = "encoded" /\ \A f \in 1..Len(schema.v) : Assembled(schema.v[f].data_type)) =>
        \A r \in 1..Len(data) : \A f \in 1..Len(schema.v) :
            (/\ FirstOffendingAt(r, f)
             /\ WrongLengthAt(r, f)
             /\ \E r2 \in 1..Len(data) : \E f2 \in 1..Len(schema.v) :
                   /\ Before(r, f, r2, f2)
                   /\ OffendingAt(r2, f2)
                   /\ ~WrongLengthAt(r2, f2))
               => batch = DimensionMismatch(schema.v[f].data_type.size,
                              Len(Given(data[r], schema.v[f].name).v))

\* C6: for every schema of the resolver, encode of the empty array returns
\* a batch of no rows with one column per schema field, and decode of that
\* batch returns no documents.
C6_EmptyBatch ==
    (pc \in {"encoded", "decoded"} /\ data = <<>>) =>
        /\ batch.ok
        /\ batch.v.num_rows = 0
        /\ Len(batch.v.columns) = Len(schema.v)
        /\ pc = "decoded" => documents = Ok(<<>>)

-----------------------------------------------------------------------------
(* Field lookup: key representation, missing fields, precedence, extra keys *)

\* the key names the schema field, as a symbol or as a string
NamesField(key, fields) == \E f \in 1..Len(fields) : key.v = fields[f].name

\* the pairs of a record whose keys name no schema field
ExtraPairs(item, fields) ==
    SelectSeq(item.v, LAMBDA pair : ~NamesField(pair[1], fields))

\* the fields the record supplies, each once, under a key of kind t
RECURSIVE Rekeyed(_, _, _, _)
Rekeyed(item, fields, f, t) ==
    IF f > Len(fields) THEN <<>>
    ELSE (IF Present(item, fields[f].name)
          THEN <<<<[t |-> t, v |-> fields[f].name], Given(item, fields[f].name)>>>>
          ELSE <<>>) \o Rekeyed(item, fields, f + 1, t)

\* the array of records with every supplied field under its string key
StringKeyed(items, fields) ==
    [r \in 1..Len(items) |->
        IF items[r].t # "hash" THEN items[r]
        ELSE RHashOf(Rekeyed(items[r], fields, 1, "str")
                     \o ExtraPairs(items[r], fields))]

\* the array of records with every supplied field under its symbol key
SymbolKeyed(items, fields) ==
    [r \in 1..Len(items) |->
        IF items[r].t # "hash" THEN items[r]
        ELSE RHashOf(Rekeyed(items[r], fields, 1, "sym")
                     \o ExtraPairs(items[r], fields))]

\* C7: a record that supplies a field under the string key encodes as the
\* record that supplies the same value under the symbol key, and encode
\* fails with a key error only when a record lacks a field under both keys.
C7_KeyRepresentation ==
    pc = "encoded" =>
        /\ build_record_batch(StringKeyed(data, schema.v), schema.v) = batch
        /\ build_record_batch(SymbolKeyed(data, schema.v), schema.v) = batch
        /\ (~batch.ok /\ batch.v.exception = "KeyError") =>
              \E r \in 1..Len(data) : \E f \in 1..Len(schema.v) : MissingAt(r, f)

\* a batch encoded from a record that supplies a non-null field under the
\* string key only
C7_Witness ==
    /\ pc = "encoded"
    /\ batch.ok
    /\ \E r \in 1..Len(data) : \E f \in 1..Len(schema.v) :
          /\ ~HasKey(data[r], RSym(schema.v[f].name))
          /\ HasKey(data[r], RStr(schema.v[f].name))
          /\ Given(data[r], schema.v[f].name) # Nil
          /\ ~IsNull(batch.v.columns[f], r)

\* C8: when a record lacks a schema field under both keys, whatever the
\* type of the field, encode returns an error and no batch; when that entry
\* is the first one encode has to reject, the error is the key error of the
\* field.
C8_MissingFieldIsError ==
    pc = "encoded" =>
        \A r \in 1..Len(data) : \A f \in 1..Len(schema.v) :
            MissingAt(r, f) =>
               /\ ~batch.ok
               /\ FirstOffendingAt(r, f) =>
                     batch = Err(KeyError(RStr(schema.v[f].name)))

\* encode has failed with the key error of a field the second record lacks
C8_Witness ==
    /\ pc = "encoded"
    /\ Len(data) >= 2
    /\ \E f \in 1..Len(schema.v) :
          /\ MissingAt(2, f)
          /\ batch = Err(KeyError(RStr(schema.v[f].name)))

\* the array of records without the string keys that a symbol key shadows
Unshadowed(items, fields) ==
    [r \in 1..Len(items) |->
        IF items[r].t # "hash" THEN items[r]
        ELSE RHashOf(SelectSeq(items[r].v, LAMBDA pair :
                 ~(pair[1].t = "str" /\ HasKey(items[r], RSym(pair[1].v)))))]

\* C9: the symbol key is looked up first: a record that has a field under
\* both keys encodes as the record without the string key, and a null under
\* the symbol key gives a null row whatever the string key holds.
C9_SymbolKeyFirst ==
    pc = "encoded" =>
        /\ build_record_batch(Unshadowed(data, schema.v), schema.v) = batch
        /\ batch.ok =>
              \A r \in 1..Len(data) : \A f \in 1..Len(schema.v) :
                 (/\ schema.v[f].data_type.k \in ScalarKinds
                  /\ HasKey(data[r], RSym(schema.v[f].name)))
                    => (IsNull(batch.v.columns[f], r)
                          <=> ValueUnder(data[r], RSym(schema.v[f].name)) = Nil)

\* a batch with a null row for a record that has null under the symbol key
\* and a value under the string key
C9_Witness ==
    /\ pc = "encoded"
    /\ batch.ok
    /\ \E r \in 1..Len(data) : \E f \in 1..Len(schema.v) :
          /\ schema.v[f].data_type.k \in ScalarKinds
          /\ HasKey(data[r], RSym(schema.v[f].name))
          /\ HasKey(data[r], RStr(schema.v[f].name))
          /\ ValueUnder(data[r], RSym(schema.v[f].name)) = Nil
          /\ ValueUnder(data[r], RStr(schema.v[f].name)) # Nil
          /\ IsNull(batch.v.columns[f], r)

\* the array of records without the keys that name no schema field
WithoutExtras(items, fields) ==
    [r \in 1..Len(items) |->
        IF items[r].t # "hash" THEN items[r]
        ELSE RHashOf(SelectSeq(items[r].v, LAMBDA pair : NamesField(pair[1], fields)))]

\* the array of records with one more key that names no schema field
WithExtras(items, fields) ==
    [r \in 1..Len(items) |->
        IF items[r].t # "hash" THEN items[r]
        ELSE RHashOf(<<<<RStr("other"), RArr(<<Nil>>)>>>> \o items[r].v)]

\* C10: keys that name no schema field are ignored: the encode result of an
\* array of records, batch or error, is the result of the array without
\* those keys and of the array with one more of them.
C10_SchemaAuthoritative ==
    pc = "encoded" =>
        /\ build_record_batch(WithoutExtras(data, schema.v), schema.v) = batch
        /\ build_record_batch(WithExtras(data, schema.v), schema.v) = batch

\* a batch encoded from a record with a key that names no schema field
C10_Witness ==
    /\ pc = "encoded"
    /\ batch.ok
    /\ \E r \in 1..Len(data) : ExtraPairs(data[r], schema.v) # <<>>

-----------------------------------------------------------------------------
(* All-or-nothing batches and the shape of a batch *)

\* some entry of the array of records is one encode has to reject
SomeOffending ==
    \E r \in 1..Len(data) : \E f \in 1..Len(schema.v) : OffendingAt(r, f)

\* C11: a batch is all-or-nothing: when a record of the array handed to
\* add_data is missing a field, fails a conversion or has a vector of the
\* wrong length, encode returns no batch; a batch encode returns has as many
\* rows as the array has records; and an add_data whose encode returns no
\* batch returns an error and leaves the dataset as it was.
C11_AllOrNothing ==
    [][(pc' = "add_data" /\ batch' # NoResult) =>
          /\ SomeOffending' => ~batch'.ok
          /\ batch'.ok => batch'.v.num_rows = Len(data')
          /\ ~batch'.ok => (~result'.ok /\ dataset' = dataset)]_vars

\* what encode stores for a non-null value of the data type
Stored(value, data_type) ==
    CASE data_type.k = "Utf8" -> value.v
      [] data_type.k = "Float32" -> AsF32(F64TryConvert(value).v)
      [] data_type.k = "Int64" -> I64TryConvert(value).v
      [] data_type.k = "Boolean" -> BoolTryConvert(value).v
      [] data_type.k = "FixedSizeList" ->
            [i \in 1..Len(value.v) |-> AsF32(F64TryConvert(value.v[i]).v)]

\* the values of row r of a vector column: its window of the flat array
Window(column, r) ==
    [i \in 1..column.data_type.size |->
        column.values.values[(r - 1) * column.data_type.size + i]]

\* entry r of the column is the one record r gave for the field
EntryFromRecord(column, r, field) ==
    LET given == Given(data[r], field.name)
    IN IF field.data_type.k = "FixedSizeList"
       THEN given # Nil => Window(column, r) = Stored(given, field.data_type)
       ELSE /\ IsNull(column, r) <=> given = Nil
            /\ given # Nil => column.values[r] = Stored(given, field.data_type)

\* C12: every batch encode returns has one column per schema field, in
\* schema order and of the field's type, every column has as many entries
\* as the array has records, and entry r of every column is the one record
\* r gave for the field.
C12_BatchShape ==
    (pc \in {"encoded", "decoded"} /\ batch.ok) =>
        /\ batch.v.schema = schema.v
        /\ Len(batch.v.columns) = Len(schema.v)
        /\ \A f \in 1..Len(schema.v) :
              /\ batch.v.columns[f].data_type = schema.v[f].data_type
              /\ ArrayLen(batch.v.columns[f]) = Len(data)
              /\ \A r \in 1..Len(data) :
                    EntryFromRecord(batch.v.columns[f], r, schema.v[f])

IsPanic(r) == ~r.ok /\ r.v.exception = "panic"

\* C13: for every vector column of a batch encode returns, the flat array
\* has as many values as records times the dimension, a null row holding a
\* window of zeros; and encode returns a batch or an error, it never panics.
C13_FlatArrayLength ==
    pc = "encoded" =>
        /\ ~IsPanic(batch)
        /\ batch.ok =>
              \A f \in 1..Len(schema.v) :
                 schema.v[f].data_type.k = "FixedSizeList" =>
                    /\ Len(batch.v.columns[f].values.values)
                          = Len(data) * schema.v[f].data_type.size
                    /\ \A r \in 1..Len(data) :
                          Given(data[r], schema.v[f].name) = Nil =>
                             Window(batch.v.columns[f], r)
                                = [i \in 1..schema.v[f].data_type.size |-> 0]

-----------------------------------------------------------------------------
(* The schema resolver *)

\* the type descriptor of entry i of the schema hash
Descriptor(i) == schema_hash.v[i][2]

\* a bare tag of one of the six scalar types
IsScalarTag(d) == d.t = "str" /\ d.v \in ScalarTags

\* a structured descriptor with type "vector" and an integer dimension
IsVectorDescriptor(d) ==
    /\ d.t = "hash"
    /\ HasKey(d, RSym("type"))
    /\ ValueUnder(d, RSym("type")) = RStr("vector")
    /\ HasKey(d, RSym("dimension"))
    /\ ValueUnder(d, RSym("dimension")).t = "int"

Recognized(d) == IsScalarTag(d) \/ IsVectorDescriptor(d)

\* a bare tag of no scalar type, or a structured descriptor of another type
\* than "vector"
IsUnknownType(d) ==
    \/ d.t = "str" /\ d.v \notin ScalarTags
    \/ /\ d.t = "hash"
       /\ HasKey(d, RSym("type"))
       /\ ValueUnder(d, RSym("type")).t = "str"
       /\ ValueUnder(d, RSym("type")).v # "vector"

\* the tag an unknown descriptor names
TagOf(d) == IF d.t = "str" THEN d.v ELSE ValueUnder(d, RSym("type")).v

\* a structured descriptor without type, or of type "vector" without dimension
IsMalformed(d) ==
    /\ d.t = "hash"
    /\ \/ ~HasKey(d, RSym("type"))
       \/ /\ ValueUnder(d, RSym("type")) = RStr("vector")
          /\ ~HasKey(d, RSym("dimension"))

\* the entries before entry i are bare scalar tags or vector descriptors
RecognizedBefore(i) == \A j \in 1..(i - 1) : Recognized(Descriptor(j))

\* the scalar type of the same name as the tag
ScalarTypeNamed(tag) ==
    CASE tag = "string" -> "Utf8"
      [] tag = "float32" -> "Float32"
      [] tag = "float64" -> "Float64"
      [] tag = "int32" -> "Int32"
      [] tag = "int64" -> "Int64"
      [] tag = "boolean" -> "Boolean"

\* C14: the schema the resolver returns has one field per entry of the
\* schema hash, in insertion order, named by the entry's key, and every
\* field is nullable.
C14_OrderAndNullability ==
    (pc = "resolved" /\ schema.ok) =>
        /\ Len(schema.v) = Len(schema_hash.v)
        /\ \A i \in 1..Len(schema_hash.v) :
              /\ schema.v[i].name = schema_hash.v[i][1].v
              /\ schema.v[i].nullable

\* a schema of as many fields as the model allows, from two different
\* descriptors
C14_Witness ==
    /\ pc = "resolved"
    /\ schema.ok
    /\ Len(schema.v) = MaxFields
    /\ Descriptor(1) # Descriptor(2)
    /\ schema.v[1].data_type # schema.v[2].data_type

\* C15: a schema hash of bare scalar tags and vector descriptors resolves;
\* in the schema a bare scalar tag gives the scalar type of the same name,
\* and a descriptor {type: "vector", dimension: d}, whatever other keys it
\* has, gives a vector of dimension d with float32 elements.
C15_SchemaFidelity ==
    pc = "resolved" =>
        /\ (\A i \in 1..Len(schema_hash.v) : Recognized(Descriptor(i)))
              => schema.ok
        /\ schema.ok =>
              /\ Len(schema.v) = Len(schema_hash.v)
              /\ \A i \in 1..Len(schema_hash.v) :
                    /\ IsScalarTag(Descriptor(i)) =>
                          schema.v[i].data_type
                              = DT(ScalarTypeNamed(Descriptor(i).v))
                    /\ IsVectorDescriptor(Descriptor(i)) =>
                          /\ schema.v[i].data_type.k = "FixedSizeList"
                          /\ schema.v[i].data_type.size
                                = ValueUnder(Descriptor(i), RSym("dimension")).v
                          /\ schema.v[i].data_type.item = "Float32"

\* a schema with a scalar field and the vector field of a descriptor that
\* has another key
C15_Witness ==
    /\ pc = "resolved"
    /\ schema.ok
    /\ \E i, j \in 1..Len(schema_hash.v) :
          /\ IsScalarTag(Descriptor(i))
          /\ Descriptor(j) = VectorDescriptorWithElement(1)
          /\ schema.v[j].data_type = FixedSizeList(1)

\* C16: when an entry of the schema hash is a bare tag of no scalar type
\* or a structured descriptor of another type than "vector", wherever it
\* is, the resolver returns an error and no schema; when the entries before
\* it are recognized, the error is the unknown type error that names the
\* tag.
C16_UnknownTypeRejected ==
    pc = "resolved" =>
        \A i \in 1..Len(schema_hash.v) :
            IsUnknownType(Descriptor(i)) =>
               /\ ~schema.ok
               /\ RecognizedBefore(i) =>
                     schema = Err(ArgError(<<"Unknown field type",
                                            TagOf(Descriptor(i))>>))

\* the unknown type error of a structured descriptor that is the last
\* entry, after a recognized one
C16_Witness ==
    /\ pc = "resolved"
    /\ Len(schema_hash.v) = MaxFields
    /\ Descriptor(MaxFields).t = "hash"
    /\ IsUnknownType(Descriptor(MaxFields))
    /\ RecognizedBefore(MaxFields)
    /\ schema = Err(ArgError(<<"Unknown field type",
                              TagOf(Descriptor(MaxFields))>>))

\* C17: when an entry of the schema hash is a structured descriptor
\* without the type key, or of type "vector" without the dimension key, the
\* resolver returns an error and no schema; when the entries before it are
\* recognized, the error is the key error of type if type is missing, and
\* the key error of dimension otherwise.
C17_MalformedDescriptor ==
    pc = "resolved" =>
        \A i \in 1..Len(schema_hash.v) :
            IsMalformed(Descriptor(i)) =>
               /\ ~schema.ok
               /\ RecognizedBefore(i) =>
                     schema = Err(KeyError(
                         IF ~HasKey(Descriptor(i), RSym("type"))
                         THEN RSym("type") ELSE RSym("dimension")))

\* the key error of type for a descriptor that lacks type and dimension
C17_Witness ==
    /\ pc = "resolved"
    /\ \E i \in 1..Len(schema_hash.v) :
          /\ Descriptor(i) = RHashOf(<<>>)
          /\ RecognizedBefore(i)
          /\ schema = Err(KeyError(RSym("type")))

\* C18: every vector field of a schema the resolver returns has a
\* positive dimension.
C18_PositiveDimension ==
    (pc = "resolved" /\ schema.ok) =>
        \A f \in 1..Len(schema.v) :
            schema.v[f].data_type.k = "FixedSizeList" =>
               schema.v[f].data_type.size > 0

-----------------------------------------------------------------------------
(* The values encode accepts for an int64 and for a boolean field *)

\* record r gives field f, of the data type k, a non-null value of another
\* kind than t
OtherKindAt(r, f, k, t) ==
    /\ data[r].t = "hash"
    /\ schema.v[f].data_type.k = k
    /\ Present(data[r], schema.v[f].name)
    /\ Given(data[r], schema.v[f].name).t \notin {"nil", t}

\* C19: when a record gives an int64 field a non-null value that is no
\* Integer (a Float that is no integer, a String), encode returns an error
\* and no batch.
C19_Int64ExactOnly ==
    pc = "encoded" =>
        \A r \in 1..Len(data) : \A f \in 1..Len(schema.v) :
            OtherKindAt(r, f, "Int64", "int") => ~batch.ok

\* C20: when a record gives a boolean field a non-null value that is
\* neither true nor false, encode returns an error and no batch.
C20_BooleanOnly ==
    pc = "encoded" =>
        \A r \in 1..Len(data) : \A f \in 1..Len(schema.v) :
            OtherKindAt(r, f, "Boolean", "bool") => ~batch.ok

-----------------------------------------------------------------------------
(* convert_batch_to_ruby on the batches a scan of a dataset can hand over,
   whoever wrote the dataset: columns of any Arrow type, rows of any
   validity, and batches whose columns are not of the type their field claims *)

\* the validity bitmap of n rows of which those of nullRows are null
Validity(n, nullRows) == Some([r \in 1..n |-> r \notin nullRows])

\* no bitmap, the first row null, every row null
Validities(n) == {None, Validity(n, {1}), Validity(n, 1..n)}

\* the value of row r of a scalar column, different from row to row
ValueAt(k, r) ==
    CASE k = "Utf8" -> ToString(r)
      [] k \in {"Float32", "Float64"} -> r * F32Ulp
      [] k = "Boolean" -> r % 2 = 1
      [] OTHER -> r

ScalarColumn(k, n, nulls) ==
    [data_type |-> DT(k), values |-> [r \in 1..n |-> ValueAt(k, r)],
     nulls |-> nulls]

\* a fixed-size-list column of n rows of d items, the flat values all different
VectorColumn(d, item, n, nulls) ==
    [data_type |-> [FixedSizeList(d) EXCEPT !.item = item],
     values |-> [data_type |-> DT(item),
                 values |-> [j \in 1..(n * d) |-> j * F32Ulp],
                 nulls |-> None],
     nulls |-> nulls]

\* the data types convert_batch_to_ruby has no arm for
OtherKinds == {"Float64", "Int32"}

\* a field's data type with a column of that very type
SoundColumns(n) ==
    LET columns ==
            {ScalarColumn(k, n, nulls) : k \in ScalarKinds, nulls \in Validities(n)}
            \cup {ScalarColumn(k, n, None) : k \in OtherKinds}
            \cup {VectorColumn(d, "Float32", n, nulls) :
                      d \in {1, MaxDim}, nulls \in Validities(n)}
            \cup {VectorColumn(1, "Float64", n, nulls) : nulls \in Validities(n)}
    IN {[data_type |-> column.data_type, column |-> column] : column \in columns}

\* a field's data type with a column of another type
UnsoundColumns(n) ==
    {[data_type |-> DT("Utf8"), column |-> ScalarColumn("Int64", n, None)],
     [data_type |-> DT("Float32"), column |-> ScalarColumn("Utf8", n, None)],
     [data_type |-> DT("Int64"), column |-> ScalarColumn("Float32", n, None)],
     [data_type |-> DT("Boolean"), column |-> ScalarColumn("Int64", n, None)],
     [data_type |-> FixedSizeList(1), column |-> ScalarColumn("Float32", n, None)]}

\* the batch of n rows of the chosen columns, named by position
ScannedBatch(chosen, n) ==
    [schema |-> [i \in 1..Len(chosen) |-> Field(Names[i], chosen[i].data_type, TRUE)],
     columns |-> [i \in 1..Len(chosen) |-> chosen[i].column],
     num_rows |-> n]

\* a scanned batch of no more than MaxCells cells, about to be decoded
DecodeInit ==
    /\ pc = "encoded"
    /\ schema_hash = RHashOf(<<>>)
    /\ data = <<>>
    /\ \E c \in 1..MaxFields : \E n \in 0..(MaxCells \div c) :
          \E chosen \in [1..c -> SoundColumns(n) \cup UnsoundColumns(n)] :
             /\ schema = Ok(ScannedBatch(chosen, n).schema)
             /\ batch = Ok(ScannedBatch(chosen, n))
    /\ documents = NoResult
    /\ dataset = None
    /\ result = NoResult
    /\ num_rows = 0
    /\ num_partitions = 0

DecodeSpec == DecodeInit /\ [][Decode]_vars

\* the fields of the decoded batch, by position
Scanned == batch.v

\* the field's data type is one convert_batch_to_ruby has an arm for
HasArm(field) == field.data_type.k \in ScalarKinds \cup {"FixedSizeList"}

\* the column is not what the field claims: another array type, or a
\* fixed-size list whose items are not Float32
Mismatched(field, column) ==
    /\ HasArm(field)
    /\ \/ column.data_type.k # field.data_type.k
       \/ /\ field.data_type.k = "FixedSizeList"
          /\ column.values.data_type.k # "Float32"

\* the entry row r of a sound column of a decoded type has in its document
EntryOf(column, r) ==
    IF IsNull(column, r) THEN Nil
    ELSE CASE column.data_type.k = "Utf8" -> RStr(column.values[r])
           [] column.data_type.k = "Float32" -> RFloat(column.values[r])
           [] column.data_type.k = "Int64" -> RInt(column.values[r])
           [] column.data_type.k = "Boolean" -> RBool(column.values[r])
           [] OTHER -> RArr([i \in 1..column.data_type.size |->
                                RFloat(Window(column, r)[i])])

\* C21: in a decoded batch every non-null row r of a vector column of
\* dimension d has an array of exactly d floats, element i the flat value at
\* (r - 1) * d + i: the row's own window, never a neighbour's.
C21_VectorWindow ==
    (pc = "decoded" /\ documents.ok) =>
        \A f \in 1..Len(Scanned.schema) : \A r \in 1..Scanned.num_rows :
            LET field == Scanned.schema[f]
                column == Scanned.columns[f]
                d == field.data_type.size
            IN (field.data_type.k = "FixedSizeList" /\ ~IsNull(column, r)) =>
                  /\ Decoded(r, field.name).ok
                  /\ Decoded(r, field.name).v.t = "array"
                  /\ Len(Decoded(r, field.name).v.v) = d
                  /\ \A i \in 1..d :
                        Decoded(r, field.name).v.v[i] =
                            RFloat(column.values.values[(r - 1) * d + i])

\* a vector column of more than one item decoded, its second row not null
C21_VectorWindowWitness ==
    /\ pc = "decoded"
    /\ documents.ok
    /\ \E f \in 1..Len(Scanned.schema) :
          /\ Scanned.schema[f].data_type.k = "FixedSizeList"
          /\ Scanned.schema[f].data_type.size > 1
          /\ Scanned.num_rows > 1
          /\ ~IsNull(Scanned.columns[f], 2)
          /\ IsNull(Scanned.columns[f], 1)

\* C22: a batch with a column of a data type the decoder has no arm for, its
\* other columns sound, decodes: one document per row, no entry under the
\* name of that column, and under every other column's name the entry of
\* the row.
C22_UnknownColumnSkipped ==
    (/\ pc = "decoded"
     /\ \E f \in 1..Len(Scanned.schema) : ~HasArm(Scanned.schema[f])
     /\ \A f \in 1..Len(Scanned.schema) :
           ~Mismatched(Scanned.schema[f], Scanned.columns[f])) =>
        /\ documents.ok
        /\ Len(documents.v) = Scanned.num_rows
        /\ \A r \in 1..Scanned.num_rows : \A f \in 1..Len(Scanned.schema) :
              IF HasArm(Scanned.schema[f])
              THEN Decoded(r, Scanned.schema[f].name) =
                       Ok(EntryOf(Scanned.columns[f], r))
              ELSE ~Decoded(r, Scanned.schema[f].name).ok

\* a batch of a Float64 column and a vector column, of at least one row
C22_UnknownColumnSkippedWitness ==
    /\ pc = "decoded"
    /\ documents.ok
    /\ Scanned.num_rows > 0
    /\ \E f, g \in 1..Len(Scanned.schema) :
          /\ ~HasArm(Scanned.schema[f])
          /\ Scanned.schema[g].data_type.k = "FixedSizeList"
          /\ ~Mismatched(Scanned.schema[g], Scanned.columns[g])
          /\ ~IsNull(Scanned.columns[g], 1)

\* C23: a batch of at least one row with a column that is not what its
\* field claims (string, float32, int64, boolean or vector by the field and
\* another array behind it, or a vector whose items are not float32) does
\* not decode: the result is an error, never a list of documents.
C23_CorruptBatchFatal ==
    (/\ pc = "decoded"
     /\ Scanned.num_rows > 0
     /\ \E f \in 1..Len(Scanned.schema) :
           Mismatched(Scanned.schema[f], Scanned.columns[f])) =>
        ~documents.ok

-----------------------------------------------------------------------------
(* The handle of the LancelotDataset object *)

\* the operations that need the handle
GuardedOperations == Operations \ {"new", "path", "create", "open"}

\* C24: an operation that needs the handle (add_data, count_rows, schema,
\* scan_all, scan_limit, filter_scan, create_vector_index, create_text_index,
\* vector_search, text_search, multi_column_text_search) fails with "Dataset
\* not opened" exactly when the object holds no dataset; the object holds
\* one from the first create or open that succeeded and never loses it
\* again; path never fails.
C24_HandleGuard ==
    /\ [](pc \in GuardedOperations => (result = NotOpened <=> dataset = None))
    /\ [](pc = "path" => result.ok)
    /\ [][dataset # None => dataset' # None]_vars
    /\ [][dataset' # None =>
             (dataset # None \/ (pc' \in {"create", "open"} /\ result'.ok))]_vars
    /\ [][(pc' \in {"create", "open"} /\ result'.ok) => dataset' # None]_vars

\* scan_all returned the rows of a dataset that an add_data filled
C24_HandleGuardWitness ==
    /\ pc = "scan_all"
    /\ result.ok
    /\ Len(result.v.v) > 0
    /\ dataset # None

\* C25: a create that fails, in the resolver or in the storage write, and
\* an open that fails leave the handle as it was: no dataset where there was
\* none, the same dataset where there was one.
C25_FailedCreateOrOpen ==
    [][(pc' \in {"create", "open"} /\ ~result'.ok) => dataset' = dataset]_vars

\* a create failed in the resolver on an object that holds a dataset with rows
C25_FailedCreateOrOpenWitness ==
    /\ pc = "create"
    /\ ~result.ok
    /\ ~schema.ok
    /\ dataset # None
    /\ CountRows(dataset[1].batches, 1) > 0

\* C26: add_data of an empty array on an object that holds a dataset returns
\* success, encodes nothing and leaves the dataset with the rows and content
\* it had; on an object that holds none it fails with "Dataset not opened".
C26_EmptyAddData ==
    [][(pc' = "add_data" /\ data' = <<>>) =>
          IF dataset = None THEN result' = NotOpened /\ dataset' = None
          ELSE result' = Ok(Nil) /\ batch' = NoResult /\ dataset' = dataset]_vars

\* add_data of an empty array returned success on a dataset with rows
C26_EmptyAddDataWitness ==
    /\ pc = "add_data"
    /\ data = <<>>
    /\ result = Ok(Nil)
    /\ dataset # None
    /\ CountRows(dataset[1].batches, 1) > 0

\* C27: the number of partitions of the vector index is max(1, num_rows
\* div 4) for fewer than 256 rows and 256 otherwise; it is at least 1, at
\* most 256 and at most max(1, num_rows).
C27_Partitions ==
    pc = "num_partitions" =>
        /\ num_rows < 256 =>
              num_partitions = IF num_rows \div 4 >= 1 THEN num_rows \div 4 ELSE 1
        /\ num_rows >= 256 => num_partitions = 256
        /\ num_partitions >= 1
        /\ num_partitions <= 256
        /\ num_partitions <= (IF num_rows >= 1 THEN num_rows ELSE 1)

\* the partitions chosen for fewer than 4 rows, for 255 and for 256
C27_PartitionsWitness ==
    /\ pc = "num_partitions"
    /\ num_rows \in {0, 3, 255, 256}

\* the handle holds a dataset of the schema the schema hash resolves to
CreatedOfSchemaHash ==
    /\ dataset # None
    /\ build_arrow_schema(schema_hash).ok
    /\ dataset[1].schema = build_arrow_schema(schema_hash).v

\* C28: schema() on a dataset created from the schema hash S returns the
\* fields of S: the names, the types and the dimensions of the vectors.
C28_SchemaReflectsDataset ==
    (pc = "schema" /\ result.ok /\ CreatedOfSchemaHash) => result.v = schema_hash

\* C29: a schema with a float64 or an int32 field is usable end to end:
\* encode of records that validate returns a batch, not the error
\* "Unsupported data type", and decode gives every document an entry under
\* the field's name.
C29_Float64Int32EndToEnd ==
    (/\ pc \in {"encoded", "decoded"}
     /\ Validates(data, schema.v)
     /\ \E f \in 1..Len(schema.v) : schema.v[f].data_type.k \in OtherKinds) =>
        /\ batch.ok
        /\ (pc = "decoded" /\ documents.ok) =>
              \A r \in 1..Len(documents.v) : \A f \in 1..Len(schema.v) :
                  schema.v[f].data_type.k \in OtherKinds =>
                      Decoded(r, schema.v[f].name).ok

====
